---- MODULE Spec2Model ----
(***************************************************************************)
(* A model of src/src/futex_mutex.cc: the futex-backed mutex of            *)
(* SuperMalloc (futex_mutex_lock, futex_mutex_unlock,                      *)
(* futex_mutex_subscribe, futex_mutex_wait) run by a fixed set of threads. *)
(*                                                                         *)
(* Every step of a thread performs at most one access to the shared words  *)
(* lock and wait, together with the thread-local computation around it.    *)
(* The kernel's futex queues are the sets of threads whose pc is           *)
(* "S_blocked" (queued on &m->lock) or "W_blocked" (queued on &m->wait).   *)
(***************************************************************************)
EXTENDS Integers, FiniteSets, Sequences, TLC

(* ---- bounds ---- *)
NThreads == 3
MaxSpin == 2

Threads == 1..NThreads

(* static const int lock_spin_count = 20; the model runs it scaled down to *)
(* the bound MaxSpin.                                                      *)
lock_spin_count == MaxSpin

VARIABLES
  lock,       \* m->lock
  wait,       \* m->wait
  spin,       \* the spin budget in force (lock_spin_count)
  pc,         \* pc[t]: where thread t is
  old_c,      \* old_c[t]: the local old_c of the call t is in
  count,      \* count[t]: the local count of futex_mutex_lock
  did_futex,  \* did_futex[t]: the local did_futex of lock / wait
  i,          \* i[t]: the loop index of futex_mutex_wait
  ret,        \* ret[t]: the call t last returned from and its value,
              \*   until t starts its next call
  rel,        \* rel[t]: history of t's last futex_mutex_unlock, until t
              \*   starts its next call (see UnlockDec)
  path,       \* path[t]: history of t's futex_mutex_lock, until t calls
              \*   futex_mutex_unlock: "fast" in the fast phase, "slow"
              \*   once it has added 2, "kernel" once it has called
              \*   futex_wait(&m->lock, ...)
  taken       \* history: some futex_mutex_lock has succeeded

vars == <<lock, wait, spin, pc, old_c, count, did_futex, i, ret, rel, path, taken>>

(* ---- pure helpers, one per primitive of the source ---- *)

\* (old_c & 1): the lock bit of a value of m->lock
LockBit(v) == v % 2

\* __sync_bool_compare_and_swap(&m->lock, expected, new) succeeds iff the
\* word still holds the expected value
CasSucceedsBroken(cur, expected) == TRUE
CasSucceeds(cur, expected) == cur = expected

\* the new value of the fast-phase compare-and-swap: old_c+1
FastNewDropsCount(v) == v - v + 1
FastNew(v) == v + 1

\* the new value of the slow-loop compare-and-swap: old_c-1
SlowNewBroken(v) == v + 1
SlowNewNoBit(v) == v - 2
SlowNew(v) == v - 1

\* the value futex_mutex_lock returns from its slow loop: return did_futex
SlowReturnOne(d) == 1
SlowReturn(d) == d

\* the end of the fast loop: the negation of while (count < lock_spin_count)
SpinExhaustedEarly(c, budget) == ~(c + 1 < budget)
SpinExhausted(c, budget) == ~(c < budget)

\* what the slow path of futex_mutex_wait does to m->lock: nothing (it
\* stores to m->wait only and adds nothing to the contender count)
WaitLockRegisters(v) == v + 2
WaitLock(v) == v

\* FUTEX_WAIT: the kernel queues the caller iff the word still holds val
FutexWaitBlocksNever(cur, val) == FALSE
FutexWaitBlocksAlways(cur, val) == TRUE
FutexWaitBlocks(cur, val) == cur = val

\* the test of futex_mutex_unlock on the captured value: if (old_c != 0)
UnlockWakesLock(c) == c # 0

\* the test of futex_mutex_wait's spin: if (m->lock == 0)
WaitSeesFreeBroken(v) == LockBit(v) = 0
WaitSeesFree(v) == v = 0

\* return m->lock & 1
SubscribeResultBroken(v) == IF v = 1 THEN 1 ELSE 0
SubscribeResult(v) == LockBit(v)

\* the threads queued in the kernel on &m->lock and on &m->wait
LockQueue == {t \in Threads : pc[t] = "S_blocked"}
WaitQueue == {t \in Threads : pc[t] = "W_blocked"}

\* FUTEX_WAKE with val = 1 on &m->lock: the sets of threads it may wake
\* (one queued thread, or none when the queue is empty)
Wake1SetsNone == {{}}
Wake1Sets == IF LockQueue = {} THEN {{}} ELSE {{t} : t \in LockQueue}

\* FUTEX_WAKE with val = INT_MAX on &m->wait: wakes every queued thread
WakeNSet == WaitQueue

\* no call returned yet / the caller has moved on to its next call
NoRet == [op |-> "none", val |-> 0]
Returned(o, v) == [op |-> o, val |-> v]

\* no futex_mutex_unlock on record
NoRel == [cap |-> 0, w |-> 0, k |-> "none"]

(* ---- initial state: a zero-initialized futex_mutex_t, all threads idle ---- *)
InitCommon ==
  /\ lock = 0
  /\ wait = 0
  /\ pc = [t \in Threads |-> "idle"]
  /\ old_c = [t \in Threads |-> 0]
  /\ count = [t \in Threads |-> 0]
  /\ did_futex = [t \in Threads |-> 0]
  /\ i = [t \in Threads |-> 0]
  /\ ret = [t \in Threads |-> NoRet]
  /\ rel = [t \in Threads |-> NoRel]
  /\ path = [t \in Threads |-> "none"]
  /\ taken = FALSE

Init == InitCommon /\ spin = lock_spin_count

(* ---- futex_mutex_lock ---- *)

\* the call: int count = 0;
LockCall(t) ==
  /\ pc[t] = "idle"
  /\ pc' = [pc EXCEPT ![t] = "L_spin"]
  /\ count' = [count EXCEPT ![t] = 0]
  /\ ret' = [ret EXCEPT ![t] = NoRet]
  /\ rel' = [rel EXCEPT ![t] = NoRel]
  /\ path' = [path EXCEPT ![t] = "fast"]
  /\ UNCHANGED <<lock, wait, spin, old_c, did_futex, i, taken>>

\* one iteration of the fast loop up to its read: while (count < spin) {
\* old_c = m->lock; if ((old_c & 1) == 1) { pause; count++ } else -> CAS
LockSpin(t) ==
  /\ pc[t] = "L_spin"
  /\ ~SpinExhausted(count[t], spin)
  /\ old_c' = [old_c EXCEPT ![t] = lock]
  /\ IF LockBit(lock) = 1
       THEN /\ count' = [count EXCEPT ![t] = count[t] + 1]
            /\ pc' = pc
       ELSE /\ count' = count
            /\ pc' = [pc EXCEPT ![t] = "L_cas"]
  /\ UNCHANGED <<lock, wait, spin, did_futex, i, ret, rel, path, taken>>

\* the fast-phase compare-and-swap old_c -> old_c+1; success returns 0
LockFastCas(t) ==
  /\ pc[t] = "L_cas"
  /\ IF CasSucceeds(lock, old_c[t])
       THEN /\ lock' = FastNew(old_c[t])
            /\ ret' = [ret EXCEPT ![t] = Returned("lock", 0)]
            /\ pc' = [pc EXCEPT ![t] = "held"]
            /\ old_c' = [old_c EXCEPT ![t] = 0]
            /\ count' = [count EXCEPT ![t] = 0]
            /\ taken' = TRUE
       ELSE /\ pc' = [pc EXCEPT ![t] = "L_spin"]
            /\ UNCHANGED <<lock, ret, old_c, count, taken>>
  /\ UNCHANGED <<wait, spin, did_futex, i, rel, path>>

\* the fast loop ends (count >= spin): __sync_fetch_and_add(&m->lock, 2);
\* int did_futex = 0;
LockEscalate(t) ==
  /\ pc[t] = "L_spin"
  /\ SpinExhausted(count[t], spin)
  /\ lock' = lock + 2
  /\ did_futex' = [did_futex EXCEPT ![t] = 0]
  /\ pc' = [pc EXCEPT ![t] = "S_read"]
  /\ path' = [path EXCEPT ![t] = "slow"]
  /\ UNCHANGED <<wait, spin, old_c, count, i, ret, rel, taken>>

\* the slow loop's read: old_c = m->lock, then the branch on its lock bit
LockSlowRead(t) ==
  /\ pc[t] = "S_read"
  /\ old_c' = [old_c EXCEPT ![t] = lock]
  /\ pc' = [pc EXCEPT ![t] = IF LockBit(lock) = 1 THEN "S_futex" ELSE "S_cas"]
  /\ UNCHANGED <<lock, wait, spin, count, did_futex, i, ret, rel, path, taken>>

\* futex_wait(&m->lock, old_c): the kernel queues the thread or returns at
\* once; after the return (at once, or later from the queue): did_futex = 1
LockFutex(t) ==
  /\ pc[t] \in {"S_futex", "S_woken"}
  /\ IF pc[t] = "S_futex" /\ FutexWaitBlocks(lock, old_c[t])
       THEN /\ pc' = [pc EXCEPT ![t] = "S_blocked"]
            /\ did_futex' = did_futex
       ELSE /\ pc' = [pc EXCEPT ![t] = "S_read"]
            /\ did_futex' = [did_futex EXCEPT ![t] = 1]
  /\ path' = [path EXCEPT ![t] = IF pc[t] = "S_futex" THEN "kernel" ELSE path[t]]
  /\ UNCHANGED <<lock, wait, spin, old_c, count, i, ret, rel, taken>>

\* the slow-loop compare-and-swap old_c -> old_c-1; success returns did_futex
LockSlowCas(t) ==
  /\ pc[t] = "S_cas"
  /\ IF CasSucceeds(lock, old_c[t])
       THEN /\ lock' = SlowNew(old_c[t])
            /\ ret' = [ret EXCEPT ![t] = Returned("lock", SlowReturn(did_futex[t]))]
            /\ pc' = [pc EXCEPT ![t] = "held"]
            /\ old_c' = [old_c EXCEPT ![t] = 0]
            /\ count' = [count EXCEPT ![t] = 0]
            /\ did_futex' = [did_futex EXCEPT ![t] = 0]
            /\ taken' = TRUE
       ELSE /\ pc' = [pc EXCEPT ![t] = "S_read"]
            /\ UNCHANGED <<lock, ret, old_c, count, did_futex, taken>>
  /\ UNCHANGED <<wait, spin, i, rel, path>>

(* ---- futex_mutex_unlock (called by the holder only) ---- *)

\* int old_c = __sync_fetch_and_add(&m->lock, -1);
\* rel[t] records the call: cap, the value captured here; w, the value of
\* wait at this instant, replaced by the value the call's own test of
\* m->wait reads; k, the futex wake the call has issued so far.
UnlockDec(t) ==
  /\ pc[t] = "held"
  /\ old_c' = [old_c EXCEPT ![t] = lock]
  /\ lock' = lock - 1
  /\ ret' = [ret EXCEPT ![t] = NoRet]
  /\ rel' = [rel EXCEPT ![t] = [cap |-> lock, w |-> wait, k |-> "none"]]
  /\ pc' = [pc EXCEPT ![t] = "U_branch"]
  /\ path' = [path EXCEPT ![t] = "none"]
  /\ UNCHANGED <<wait, spin, count, did_futex, i, taken>>

\* the rest of the call, one kernel call or shared access per step:
\*   U_branch: if (old_c != 0) futex_wake1(&m->lock); else if (m->wait) ...
\*   U_clear:  m->wait = 0;
\*   U_wakeN:  futex_wakeN(&m->wait);
\* and the return, which ends the scope of old_c
UnlockWake(t) ==
  /\ pc[t] \in {"U_branch", "U_clear", "U_wakeN"}
  /\ IF pc[t] = "U_branch" /\ UnlockWakesLock(old_c[t])
       THEN \E W \in Wake1Sets :
              /\ pc' = [s \in Threads |->
                          IF s = t THEN "idle"
                          ELSE IF s \in W THEN "S_woken" ELSE pc[s]]
              /\ old_c' = [old_c EXCEPT ![t] = 0]
              /\ rel' = [rel EXCEPT ![t].k = "lock"]
              /\ ret' = [ret EXCEPT ![t] = Returned("unlock", 0)]
              /\ UNCHANGED wait
       ELSE IF pc[t] = "U_branch"
       THEN /\ pc' = [pc EXCEPT ![t] = IF wait # 0 THEN "U_clear" ELSE "idle"]
            /\ old_c' = [old_c EXCEPT ![t] = IF wait # 0 THEN old_c[t] ELSE 0]
            /\ ret' = [ret EXCEPT ![t] =
                         IF wait # 0 THEN NoRet ELSE Returned("unlock", 0)]
            /\ rel' = [rel EXCEPT ![t].w = wait]
            /\ UNCHANGED wait
       ELSE IF pc[t] = "U_clear"
       THEN /\ wait' = 0
            /\ pc' = [pc EXCEPT ![t] = "U_wakeN"]
            /\ UNCHANGED <<old_c, rel, ret>>
       ELSE /\ pc' = [s \in Threads |->
                        IF s = t THEN "idle"
                        ELSE IF s \in WakeNSet THEN "W_woken" ELSE pc[s]]
            /\ old_c' = [old_c EXCEPT ![t] = 0]
            /\ rel' = [rel EXCEPT ![t].k = "wait"]
            /\ ret' = [ret EXCEPT ![t] = Returned("unlock", 0)]
            /\ UNCHANGED wait
  /\ UNCHANGED <<lock, spin, count, did_futex, i, path, taken>>

(* ---- futex_mutex_subscribe ---- *)

SubscribeCall(t) ==
  /\ pc[t] = "idle"
  /\ pc' = [pc EXCEPT ![t] = "B_read"]
  /\ ret' = [ret EXCEPT ![t] = NoRet]
  /\ rel' = [rel EXCEPT ![t] = NoRel]
  /\ UNCHANGED <<lock, wait, spin, old_c, count, did_futex, i, path, taken>>

\* return m->lock & 1;
SubscribeRead(t) ==
  /\ pc[t] = "B_read"
  /\ ret' = [ret EXCEPT ![t] = Returned("subscribe", SubscribeResult(lock))]
  /\ pc' = [pc EXCEPT ![t] = "idle"]
  /\ UNCHANGED <<lock, wait, spin, old_c, count, did_futex, i, rel, path, taken>>

(* ---- futex_mutex_wait ---- *)

\* the call: int did_futex = 0; and the first for (int i = 0; ...
WaitCall(t) ==
  /\ pc[t] = "idle"
  /\ did_futex' = [did_futex EXCEPT ![t] = 0]
  /\ i' = [i EXCEPT ![t] = 0]
  /\ pc' = [pc EXCEPT ![t] = "W_spin"]
  /\ ret' = [ret EXCEPT ![t] = NoRet]
  /\ rel' = [rel EXCEPT ![t] = NoRel]
  /\ UNCHANGED <<lock, wait, spin, old_c, count, path, taken>>

\* one iteration of the for loop: if (m->lock == 0) return did_futex;
\* pause; i++
WaitSpin(t) ==
  /\ pc[t] = "W_spin"
  /\ i[t] < spin
  /\ IF WaitSeesFree(lock)
       THEN /\ ret' = [ret EXCEPT ![t] = Returned("wait", did_futex[t])]
            /\ pc' = [pc EXCEPT ![t] = "idle"]
            /\ i' = [i EXCEPT ![t] = 0]
            /\ did_futex' = [did_futex EXCEPT ![t] = 0]
       ELSE /\ i' = [i EXCEPT ![t] = i[t] + 1]
            /\ UNCHANGED <<ret, pc, did_futex>>
  /\ UNCHANGED <<lock, wait, spin, old_c, count, rel, path, taken>>

\* the for loop ends (i >= spin): m->wait = 1;
WaitSet(t) ==
  /\ pc[t] = "W_spin"
  /\ ~(i[t] < spin)
  /\ wait' = 1
  /\ lock' = WaitLock(lock)
  /\ pc' = [pc EXCEPT ![t] = "W_futex"]
  /\ UNCHANGED <<spin, old_c, count, did_futex, i, ret, rel, path, taken>>

\* futex_wait(&m->wait, 1): the kernel queues the thread or returns at once;
\* after the return: did_futex = 1 and the outer loop restarts the for loop
WaitFutex(t) ==
  /\ pc[t] \in {"W_futex", "W_woken"}
  /\ IF pc[t] = "W_futex" /\ FutexWaitBlocks(wait, 1)
       THEN /\ pc' = [pc EXCEPT ![t] = "W_blocked"]
            /\ UNCHANGED <<did_futex, i>>
       ELSE /\ pc' = [pc EXCEPT ![t] = "W_spin"]
            /\ did_futex' = [did_futex EXCEPT ![t] = 1]
            /\ i' = [i EXCEPT ![t] = 0]
  /\ UNCHANGED <<lock, wait, spin, old_c, count, ret, rel, path, taken>>

(* ---- the program ---- *)

\* the steps of a call in progress (a thread that holds the mutex goes on to
\* call futex_mutex_unlock)
Step(t) ==
  \/ LockSpin(t)
  \/ LockFastCas(t)
  \/ LockEscalate(t)
  \/ LockSlowRead(t)
  \/ LockFutex(t)
  \/ LockSlowCas(t)
  \/ UnlockDec(t)
  \/ UnlockWake(t)
  \/ SubscribeRead(t)
  \/ WaitSpin(t)
  \/ WaitSet(t)
  \/ WaitFutex(t)

\* an idle thread starts a call, as the threads of stress() do
Call(t) ==
  \/ LockCall(t)
  \/ SubscribeCall(t)
  \/ WaitCall(t)

Next == \E t \in Threads : Call(t) \/ Step(t)

Spec == Init /\ [][Next]_vars

\* the scheduler runs every thread that can run; no thread is obliged to
\* start a new call
FairSpec == Spec /\ \A t \in Threads : WF_vars(Step(t))

\* the same program for every spin budget from 0 (escalate at once) up to
\* the bound
InitAnySpin == InitCommon /\ spin \in 0..MaxSpin

FairSpecAnySpin ==
  InitAnySpin /\ [][Next]_vars /\ \A t \in Threads : WF_vars(Step(t))

\* the kernel wait returns although no wake was issued (a signal, EINTR): a
\* queued thread resumes after its futex_wait call
SpuriousWake(t) ==
  /\ pc[t] \in {"S_blocked", "W_blocked"}
  /\ pc' = [pc EXCEPT ![t] = IF pc[t] = "S_blocked" THEN "S_woken" ELSE "W_woken"]
  /\ UNCHANGED <<lock, wait, spin, old_c, count, did_futex, i, ret, rel, path, taken>>

NextSpurious == Next \/ \E t \in Threads : SpuriousWake(t)

SpecSpurious == Init /\ [][NextSpurious]_vars

(* ---- vocabulary of the properties ---- *)

\* inside futex_mutex_lock, before its successful compare-and-swap
FastPcs == {"L_spin", "L_cas"}
SlowPcs == {"S_read", "S_futex", "S_blocked", "S_woken", "S_cas"}
LockPcs == FastPcs \cup SlowPcs

\* inside futex_mutex_unlock, after its atomic decrement
UnlockPcs == {"U_branch", "U_clear", "U_wakeN"}

\* the threads between the return of futex_mutex_lock (its successful
\* compare-and-swap) and the call of futex_mutex_unlock (its decrement)
Holders == {t \in Threads : pc[t] = "held"}

\* the threads that have added 2 to lock and not yet won the slow-loop CAS
Contenders == {t \in Threads : pc[t] \in SlowPcs}

InLock == {t \in Threads : pc[t] \in LockPcs}
InUnlock == {t \in Threads : pc[t] \in UnlockPcs}

(* ---- C1 ---- *)

\* C1: mutual exclusion: in every reachable state at most one thread is
\* between the return of its futex_mutex_lock and the call of its matching
\* futex_mutex_unlock.
MutualExclusion == Cardinality(Holders) <= 1

\* a thread holds the mutex while the two others are inside futex_mutex_lock,
\* one spinning and one registered as a contender
C1Witness ==
  /\ Holders # {}
  /\ \E t \in Threads : pc[t] \in FastPcs
  /\ \E t \in Threads : pc[t] \in SlowPcs

(* ---- C2 ---- *)

\* the state the claim excludes: nobody holds the mutex, nobody is inside
\* futex_mutex_unlock, some thread is inside futex_mutex_lock and every such
\* thread is queued in the kernel on &m->lock
LockersAllBlocked ==
  /\ LockBit(lock) = 0
  /\ InUnlock = {}
  /\ InLock # {}
  /\ InLock \subseteq LockQueue

\* C2: no total deadlock among lockers: no reachable state has bit 0 of lock
\* clear, no thread inside futex_mutex_unlock and every thread inside
\* futex_mutex_lock blocked in the kernel; and under fair scheduling,
\* whenever some thread is inside futex_mutex_lock some thread eventually
\* acquires the mutex.
NoTotalDeadlock ==
  /\ [](~LockersAllBlocked)
  /\ (InLock # {}) ~> (Holders # {})

\* a thread is queued in the kernel on &m->lock while the mutex is free: the
\* wake of the release that freed it is still to come or already delivered
C2Witness ==
  /\ LockBit(lock) = 0
  /\ LockQueue # {}

(* ---- C6 ---- *)

\* C6: invariant I1: bit 0 of lock is 1 if and only if some thread holds the
\* mutex (from its successful compare-and-swap to its atomic decrement).
I1 == (LockBit(lock) = 1) <=> (Holders # {})

\* both sides of I1 with contenders registered: held with a contender, and
\* (in C6WitnessFree) free with a contender still racing
C6Witness == LockBit(lock) = 1 /\ lock >= 3 /\ Holders # {}

(* ---- C7 ---- *)

\* C7: invariant I2: lock with bit 0 cleared, divided by 2, is the number of
\* threads that have executed the atomic add of 2 and have not yet succeeded
\* in the slow-loop compare-and-swap; threads in the fast spin phase are not
\* counted.
I2 == (lock - LockBit(lock)) \div 2 = Cardinality(Contenders)

\* two registered contenders, one of them queued in the kernel, and a third
\* thread in the fast spin phase that the count leaves out
C7Witness ==
  /\ Cardinality(Contenders) = 2
  /\ LockQueue # {}
  /\ \E t \in Threads : pc[t] \in FastPcs

(* ---- C3 ---- *)

InWait == {t \in Threads : pc[t] \in {"W_spin", "W_futex", "W_blocked", "W_woken"}}

\* C3: WaitForFree convergence: under fair scheduling, while another thread
\* keeps cycling futex_mutex_lock / futex_mutex_unlock (it holds the mutex
\* again and again, and lock is 0 again and again), a thread blocked in the
\* kernel wait of futex_mutex_wait does not stay blocked there forever.
WaitForFreeConverges ==
  \A t \in Threads :
    ( /\ []<>(\E s \in Threads \ {t} : pc[s] = "held")
      /\ []<>(lock = 0) )
    => ((pc[t] = "W_blocked") ~> (pc[t] # "W_blocked"))

(* ---- C4 ---- *)

\* C4: futex_mutex_wait returns only at a step at which its own read of
\* lock yields exactly 0: every step in which a thread leaves
\* futex_mutex_wait is taken with lock = 0 (so never with bit 0 set).
WaitReturnsOnlyOnZero ==
  [][\A t \in Threads :
       (pc[t] \in {"W_spin", "W_futex", "W_blocked", "W_woken"} /\ pc'[t] = "idle")
         => (lock = 0 /\ LockBit(lock) # 1)]_vars

\* a futex_mutex_wait has returned while another thread is inside
\* futex_mutex_lock (so lock was changing around its read)
C4Witness ==
  \E t \in Threads :
    /\ ret[t].op = "wait"
    /\ InLock # {}

(* ---- C5 ---- *)

\* a futex_mutex_subscribe call of t performs its read and returns
SubscribeReturns(t) == pc[t] = "B_read" /\ pc'[t] = "idle"

\* C5 as stated: while some thread is between the return of its
\* futex_mutex_lock and the completion of its futex_mutex_unlock (wake step
\* included), every futex_mutex_subscribe returns 1.
SubscribeTrueUntilUnlockCompletes ==
  [][\A t \in Threads :
       (SubscribeReturns(t) /\ (Holders # {} \/ InUnlock # {}))
         => ret'[t].val = 1]_vars

\* C5 as amended: while some thread is between the return of its
\* futex_mutex_lock and the atomic decrement of its futex_mutex_unlock,
\* every futex_mutex_subscribe returns 1.
SubscribeTrueUntilDecrement ==
  [][\A t \in Threads :
       (SubscribeReturns(t) /\ Holders # {}) => ret'[t].val = 1]_vars

\* a futex_mutex_subscribe has returned 1 while another thread holds the
\* mutex and contenders are registered
C5Witness ==
  \E t \in Threads :
    /\ ret[t] = Returned("subscribe", 1)
    /\ Holders # {}
    /\ lock >= 3

(* ---- C8 ---- *)

LockWakeIffContenders ==
  /\ [](\A t \in Threads :
          (rel[t].cap # 0 /\ pc[t] \notin UnlockPcs)
            => ((rel[t].k = "lock") <=> (rel[t].cap # 1)))
  /\ [][Cardinality({s \in Threads : pc[s] = "S_blocked" /\ pc'[s] # "S_blocked"}) <= 1]_vars

(* ---- C10 ---- *)

\* C10: a futex_mutex_unlock called with lock = 1 and wait = 1 sets wait to
\* 0 and wakes every thread blocked on the wait address: such a call (unless
\* its own test of wait read 0, another release having cleared it in
\* between) has not returned before it issued the wake-all on &m->wait, and
\* the step that issues a wake-all leaves no thread queued there.
WaitWakeOnUncontendedRelease ==
  /\ [](\A t \in Threads :
          (rel[t].cap = 1 /\ rel[t].w = 1 /\ pc[t] \notin UnlockPcs)
            => rel[t].k = "wait")
  /\ [][\A t \in Threads :
          (pc[t] = "U_wakeN" /\ pc'[t] = "idle") => WaitQueue' = {}]_vars

(* ---- C11 ---- *)

\* C11: futex_mutex_lock returns 1 if and only if the call invoked the
\* kernel wait on the lock address at least once; it returns 0 on every
\* fast-phase acquisition and on a slow-loop acquisition that never called
\* the kernel wait.
LockReturnsKernelFlag ==
  \A t \in Threads :
    pc[t] = "held" =>
      /\ ret[t].op = "lock"
      /\ (ret[t].val = 1) <=> (path[t] = "kernel")
      /\ (ret[t].val = 0) <=> (path[t] \in {"fast", "slow"})

\* the case that tells the flag from "took the slow path": the holder
\* escalated, never called the kernel wait, and got 0
C11Witness ==
  \E t \in Threads :
    /\ pc[t] = "held"
    /\ path[t] = "slow"
    /\ ret[t] = Returned("lock", 0)

(* ---- C12 ---- *)

\* C12: futex_mutex_subscribe is a pure read: the call returns bit 0 of the
\* value lock has at its read and no step of it changes lock or wait; so
\* while no futex_mutex_lock has ever succeeded every call returns 0 and
\* leaves lock = 0 and wait = 0.
SubscribePureRead ==
  [][\A t \in Threads :
       /\ SubscribeCall(t) => (lock' = lock /\ wait' = wait)
       /\ SubscribeReturns(t) =>
            /\ ret'[t] = Returned("subscribe", lock % 2)
            /\ lock' = lock /\ wait' = wait
            /\ ~taken => (ret'[t].val = 0 /\ lock' = 0 /\ wait' = 0)]_vars

\* two threads have each got 0 from futex_mutex_subscribe on a mutex that
\* was never locked
C12Witness ==
  /\ ~taken
  /\ lock = 0 /\ wait = 0
  /\ \E t, u \in Threads :
       /\ t # u
       /\ ret[t] = Returned("subscribe", 0)
       /\ ret[u] = Returned("subscribe", 0)

(* ---- C13 ---- *)

\* a step of futex_mutex_wait taken by t
WaitStep(t) == WaitCall(t) \/ WaitSpin(t) \/ WaitSet(t) \/ WaitFutex(t)

\* C13: no step of futex_mutex_wait changes lock, and the only write to
\* wait it performs stores 1.
WaitWritesWaitOnly ==
  [][\A t \in Threads :
       WaitStep(t) => (lock' = lock /\ (wait' = wait \/ wait' = 1))]_vars

\* a thread blocked in futex_mutex_wait after storing wait = 1 while lock
\* shows a holder and no contender: the waiter is not counted in lock
C13Witness ==
  /\ wait = 1
  /\ lock = 1
  /\ WaitQueue # {}

(* ---- C14 ---- *)

\* C14: spin-count independence: for every spin budget from 0 up, mutual
\* exclusion and invariant I2 hold in every reachable state, no state has
\* every locker blocked with the mutex free and no release in progress, and
\* under fair scheduling a thread inside futex_mutex_lock leads to some
\* thread holding the mutex.
SpinCountIndependence ==
  /\ [](Cardinality(Holders) <= 1)
  /\ []((lock - (lock % 2)) \div 2 = Cardinality(Contenders))
  /\ [](~LockersAllBlocked)
  /\ (InLock # {}) ~> (Holders # {})

\* with a budget of 0 every acquisition goes through the slow loop: one
\* thread holds the mutex and the two others are registered contenders
C14Witness ==
  /\ spin = 0
  /\ Holders # {}
  /\ Cardinality(Contenders) >= 2

(* ---- C15 ---- *)

\* C15: spin budget accounting: count grows only (and by one) in a fast-loop
\* iteration whose read finds bit 0 of lock set; a failed fast-phase
\* compare-and-swap leaves it alone; the escalation (add of 2) is taken with
\* count exactly lock_spin_count; and a thread that has escalated stays in
\* the slow loop until it acquires, never returning to the fast phase.
SpinBudgetAccounting ==
  [][\A t \in Threads :
       /\ (count'[t] > count[t]) =>
            (pc[t] = "L_spin" /\ lock % 2 = 1 /\ count'[t] = count[t] + 1)
       /\ (pc[t] = "L_cas" /\ pc'[t] = "L_spin") => count'[t] = count[t]
       /\ (pc[t] = "L_spin" /\ pc'[t] = "S_read") =>
            (count[t] = lock_spin_count /\ lock' = lock + 2)
       /\ (pc[t] \in SlowPcs) => (pc'[t] \in SlowPcs \cup {"held"})]_vars

\* one thread has escalated with its budget used up while another is back
\* at the top of the fast loop after a failed compare-and-swap (its last
\* read was of a free lock) with one held-read still on its count
C15Witness ==
  /\ \E t \in Threads : pc[t] \in SlowPcs /\ count[t] = lock_spin_count
  /\ \E u \in Threads :
       pc[u] = "L_spin" /\ count[u] = 1 /\ old_c[u] % 2 = 0 /\ old_c[u] # lock

(* ---- C16 ---- *)

\* C16: acquisition transitions: a successful fast-phase compare-and-swap
\* takes lock from an even v to v+1 and leaves the contender count v/2 as
\* it is; a successful slow-loop compare-and-swap takes lock from an even
\* v >= 2 to v-1, setting bit 0 and lowering the contender count by one.
AcquisitionTransitions ==
  [][\A t \in Threads :
       /\ (pc[t] = "L_cas" /\ pc'[t] = "held") =>
            /\ lock % 2 = 0
            /\ lock' = lock + 1
            /\ lock' \div 2 = lock \div 2
       /\ (pc[t] = "S_cas" /\ pc'[t] = "held") =>
            /\ lock % 2 = 0 /\ lock >= 2
            /\ lock' = lock - 1
            /\ lock' % 2 = 1
            /\ lock' \div 2 = (lock \div 2) - 1]_vars

\* a fast-phase acquisition made while a contender was registered: the
\* holder came through the fast phase, and a contender's pending
\* compare-and-swap expects the even value the holder's CAS replaced
C16Witness ==
  \E t, u \in Threads :
    /\ pc[t] = "held" /\ path[t] = "fast"
    /\ pc[u] = "S_cas" /\ old_c[u] >= 2 /\ lock = old_c[u] + 1

(* ---- C17 ---- *)

\* C17: with kernel waits that may return at any time, mutual exclusion and
\* invariant I2 still hold; a thread comes to hold the mutex only by its own
\* compare-and-swap succeeding on an even value; futex_mutex_wait returns
\* only at a read of lock = 0; and a thread resuming from a kernel wait goes
\* back to re-read the shared word, writing nothing.
SpuriousWakeupsAbsorbed ==
  /\ [](Cardinality(Holders) <= 1)
  /\ []((lock - (lock % 2)) \div 2 = Cardinality(Contenders))
  /\ [][\A t \in Threads :
          /\ (pc[t] # "held" /\ pc'[t] = "held") =>
               /\ pc[t] \in {"L_cas", "S_cas"}
               /\ lock = old_c[t] /\ lock % 2 = 0 /\ lock' % 2 = 1
          /\ (pc[t] \in {"W_spin", "W_futex", "W_blocked", "W_woken"} /\ pc'[t] = "idle") =>
               (pc[t] = "W_spin" /\ lock = 0)
          /\ (pc[t] = "S_woken" /\ pc'[t] # "S_woken") =>
               (pc'[t] = "S_read" /\ lock' = lock /\ wait' = wait)
          /\ (pc[t] = "W_woken" /\ pc'[t] # "W_woken") =>
               (pc'[t] = "W_spin" /\ lock' = lock /\ wait' = wait)]_vars

\* a futex_mutex_wait has returned 1: its kernel wait returned, which in
\* this program only a spurious return brings about; meanwhile a locker has
\* resumed from its kernel wait while the mutex is still held
C17Witness ==
  /\ \E t \in Threads : ret[t] = Returned("wait", 1)
  /\ \E u \in Threads : pc[u] = "S_woken" /\ lock % 2 = 1

(* ---- C18 ---- *)

\* the waiter w of the documented race: it has finished its spin with the
\* lock observed held on every read and is about to store wait = 1
SpinFinished(w) == pc[w] = "W_spin" /\ ~(i[w] < spin)

\* the release u of the documented race: it took lock from 1 to 0 with
\* wait set, and its call is over
ReleasedToZero(u) ==
  pc[u] \notin UnlockPcs /\ rel[u].cap = 1 /\ rel[u].w = 1

\* C18: the documented race: while a futex_mutex_wait caller has finished
\* its spin and not yet stored wait = 1, the futex_mutex_unlock that sets
\* lock to 0 also sets wait to 0 and issues the wake-all on the wait address
\* (which cannot wake that caller), after which the caller stores wait = 1
\* and blocks. Stated of the release: in that configuration, a release that
\* took lock to 0 with wait set has issued the wake-all by the time it
\* returns.
DocumentedRaceRelease ==
  \A u, w \in Threads :
    (u # w /\ SpinFinished(w) /\ ReleasedToZero(u)) => rel[u].k = "wait"

\* what the program does instead: no release ever stores to wait or wakes
\* the wait address, so wait never returns from 1 to 0
NoWaitChannelWake ==
  /\ [](\A u \in Threads : rel[u].k # "wait" /\ pc[u] \notin {"U_clear", "U_wakeN"})
  /\ [][wait = 1 => wait' = 1]_vars

\* the hang the race ends in: a thread blocked on the wait address with the
\* mutex free and every other thread idle
WaitHang ==
  \E w \in Threads :
    /\ pc[w] = "W_blocked" /\ lock = 0 /\ wait = 1
    /\ \A u \in Threads \ {w} : pc[u] = "idle"

(* ---- C19 ---- *)

\* C19: with NThreads threads lock stays within 0 .. 2*NThreads+1; the
\* value futex_mutex_unlock captures before its decrement is odd and at
\* least 1, and the value the decrement leaves in lock is even and is twice
\* the number of registered contenders.
LockRange ==
  /\ [](lock \in 0..(2 * NThreads + 1))
  /\ [](\A t \in Threads :
          pc[t] \in UnlockPcs => (old_c[t] % 2 = 1 /\ old_c[t] >= 1))
  /\ [][\A t \in Threads :
          (pc[t] = "held" /\ pc'[t] # "held") =>
            /\ old_c'[t] = lock /\ lock % 2 = 1 /\ lock >= 1
            /\ lock' = lock - 1 /\ lock' % 2 = 0
            /\ lock' = 2 * Cardinality({u \in Threads : pc'[u] \in SlowPcs})]_vars

\* a release that captured 5: the holder's decrement left lock = 4 with the
\* two other threads registered as contenders
C19Witness ==
  \E t \in Threads :
    /\ pc[t] = "U_branch"
    /\ old_c[t] = 5
    /\ lock = 4

(* ---- C20 ---- *)

\* C20: round trip to the free state: whenever no thread holds the mutex
\* and no thread is inside futex_mutex_lock or futex_mutex_unlock, lock is
\* 0.
QuiescentLockIsZero ==
  (Holders = {} /\ InLock = {} /\ InUnlock = {}) => lock = 0

\* every thread has completed a lock/unlock pair, at least one of them
\* through the slow loop (its release captured a contender), and nobody is
\* in a call
C20Witness ==
  /\ \A t \in Threads : pc[t] = "idle" /\ ret[t].op = "unlock"
  /\ \E t \in Threads : rel[t].cap >= 3
  /\ lock = 0

====
